---- MODULE Spec2Model ----
(***************************************************************************)
(* rmd: render a Markdown document to HTML, optionally wrapped in a styled *)
(* HTML page (-style) and optionally previewed with the OS viewer          *)
(* (-preview).  The model follows func main of main.go statement by        *)
(* statement: the straight-line body, the stack of deferred functions, and *)
(* Go's panic / recover rules for the deferred functions.                  *)
(*                                                                         *)
(* Every call into the operating system or a library that can return an   *)
(* error (os.Open, io.ReadAll, os.MkdirTemp, os.Create, Template.Execute,  *)
(* md.Convert, io.Copy, exec.Cmd.Run, os.RemoveAll) succeeds or fails      *)
(* nondeterministically.                                                   *)
(***************************************************************************)
EXTENDS Integers, Sequences, FiniteSets, TLC

\* Longest Markdown input explored.
MaxLen == 3

\* Characters of the Markdown input: a letter and a line feed.
Chars == {"a", "nl"}

\* Values of the -i flag: the default, the empty string, a file path.
InPaths == {"-", "", "doc.md"}

VARIABLES
    inPath,       \* *inPath: value of flag -i
    previewOnly,  \* *previewOnly: value of flag -preview
    style,        \* *style: value of flag -style
    input,        \* the bytes the input source holds
    mdTxt,        \* mdTxt: the bytes read from the input
    pc,           \* position in main
    defers,       \* main's deferred functions, most recently deferred first
    panicking,    \* the message of the panic in progress, or NoPanic
    sink,         \* sink: "stdout" (os.Stdout) or "file" (out.html)
    stdout,       \* bytes written to standard output
    fileOut,      \* bytes written to out.html
    stderr,       \* lines written to standard error
    tmpDirExists, \* the directory made by os.MkdirTemp exists
    trace,        \* the calls main has made, in order
    failed,       \* the calls that returned an error
    exitCode      \* the exit status of the process, NotExited before

vars == <<inPath, previewOnly, style, input, mdTxt, pc, defers, panicking,
          sink, stdout, fileOut, stderr, tmpDirExists, trace, failed, exitCode>>

NoPanic == "none"
NotExited == -1

\* The diagnostic texts of main.go.
MsgOpen    == "error opening input file"
MsgRead    == "error reading all Markdown content from input"
MsgTmpDir  == "error creating temp directory"
MsgPrefix  == "error writing html output prefix data to sink"
MsgSuffix  == "error writing html output suffix data to sink"
MsgRender  == "error rendering Markdown"
MsgLaunch  == "error opening OS's default web page viewer"
MsgSkip    == "Skip preview due to panic"
MsgRemove  == "error removing temporary directory"

\* The preamble the template htmlPrefixWithCSS renders and the closing
\* boilerplate, as tokens.
Preamble == <<"<html>", "<head>", "<style>", "CSS", "</style>", "</head>",
              "<body>", "<article>">>
Suffix == <<"</article>", "</body>", "</html>">>

SeqsUpTo(S, n) == UNION {[1..k -> S] : k \in 0..n}

Inputs == SeqsUpTo(Chars, MaxLen)

\* md.Convert with html.WithHardWraps: blank lines separate paragraphs, a
\* line feed inside a paragraph is rendered as a hard break.
\* inPara: a paragraph is open; nl: a line feed is pending inside it.
RECURSIVE Render(_, _, _)
Render(s, inPara, nl) ==
    IF s = <<>> THEN (IF inPara THEN <<"</p>">> ELSE <<>>)
    ELSE IF Head(s) = "a"
         THEN (IF ~inPara THEN <<"<p>", "a">>
               ELSE IF nl THEN <<"<br />", "a">>
               ELSE <<"a">>) \o Render(Tail(s), TRUE, FALSE)
         ELSE IF ~inPara THEN Render(Tail(s), FALSE, FALSE)
              ELSE IF nl THEN <<"</p>">> \o Render(Tail(s), FALSE, FALSE)
              ELSE Render(Tail(s), TRUE, TRUE)

Convert(txt) == Render(txt, FALSE, FALSE)

\* The prefixes of bytes a write that returns an error may have written.
Partial(bytes) == {SubSeq(bytes, 1, k) : k \in 0..Len(bytes)}

\* w.Write on the writer named to: bytes are appended to that writer.
WriteTo(to, bytes) ==
    /\ stdout' = IF to = "stdout" THEN stdout \o bytes ELSE stdout
    /\ fileOut' = IF to = "file" THEN fileOut \o bytes ELSE fileOut

\* Variant of Defer: deferred functions run in the order of their defer
\* statements.
Defer_Fifo(f, stack) == stack \o <<f>>

\* defer f: f runs before the functions deferred earlier.
Defer(f, stack) == <<f>> \o stack

\* panic(fmt.Errorf(msg...)): main's body stops and its deferred functions run.
Panic(msg) ==
    /\ panicking' = msg
    /\ pc' = "unwind"

Init ==
    /\ inPath \in InPaths
    /\ previewOnly \in BOOLEAN
    /\ style \in BOOLEAN
    /\ input \in Inputs
    /\ mdTxt = <<>>
    /\ pc = "open"
    /\ defers = <<>>
    /\ panicking = NoPanic
    /\ sink = "stdout"
    /\ stdout = <<>>
    /\ fileOut = <<>>
    /\ stderr = <<>>
    /\ tmpDirExists = FALSE
    /\ trace = <<>>
    /\ failed = {}
    /\ exitCode = NotExited

\* Variant of UsesStdin: only "-" selects standard input.
UsesStdin_DashOnly == inPath = "-"

\* main.go 35-43: the input is a named file unless -i is "" or "-".
UsesStdin == inPath = "" \/ inPath = "-"

OpenInput ==
    /\ pc = "open"
    /\ IF UsesStdin
       THEN /\ pc' = "read"
            /\ UNCHANGED <<defers, panicking, trace, failed>>
       ELSE \E ok \in BOOLEAN :
            /\ trace' = Append(trace, "open")
            /\ IF ok
               THEN /\ defers' = Defer("closeIn", defers)
                    /\ pc' = "read"
                    /\ UNCHANGED <<panicking, failed>>
               ELSE /\ Panic(MsgOpen)
                    /\ failed' = failed \cup {"open"}
                    /\ UNCHANGED defers
    /\ UNCHANGED <<inPath, previewOnly, style, input, mdTxt, sink, stdout,
                   fileOut, stderr, tmpDirExists, exitCode>>

\* main.go 44-47: io.ReadAll.
ReadAll ==
    /\ pc = "read"
    /\ trace' = Append(trace, "read")
    /\ \E ok \in BOOLEAN :
         IF ok
         THEN /\ mdTxt' = input
              /\ pc' = "mkdir"
              /\ UNCHANGED <<panicking, failed>>
         ELSE /\ Panic(MsgRead)
              /\ failed' = failed \cup {"read"}
              /\ UNCHANGED mdTxt
    /\ UNCHANGED <<inPath, previewOnly, style, input, defers, sink, stdout,
                   fileOut, stderr, tmpDirExists, exitCode>>

\* Variant of MkdirTemp: the removal of the directory is not deferred.
MkdirTemp_NoCleanup ==
    /\ pc = "mkdir"
    /\ IF ~previewOnly
       THEN /\ pc' = "style"
            /\ UNCHANGED <<defers, panicking, tmpDirExists, trace, failed>>
       ELSE \E ok \in BOOLEAN :
            /\ trace' = Append(trace, "mkdir")
            /\ IF ok
               THEN /\ tmpDirExists' = TRUE
                    /\ pc' = "create"
                    /\ UNCHANGED <<defers, panicking, failed>>
               ELSE /\ Panic(MsgTmpDir)
                    /\ failed' = failed \cup {"tmpdir"}
                    /\ UNCHANGED <<defers, tmpDirExists>>
    /\ UNCHANGED <<inPath, previewOnly, style, input, mdTxt, sink, stdout,
                   fileOut, stderr, exitCode>>

\* main.go 59-69: os.MkdirTemp and the deferred os.RemoveAll.
MkdirTemp ==
    /\ pc = "mkdir"
    /\ IF ~previewOnly
       THEN /\ pc' = "style"
            /\ UNCHANGED <<defers, panicking, tmpDirExists, trace, failed>>
       ELSE \E ok \in BOOLEAN :
            /\ trace' = Append(trace, "mkdir")
            /\ IF ok
               THEN /\ tmpDirExists' = TRUE
                    /\ defers' = Defer("removeAll", defers)
                    /\ pc' = "create"
                    /\ UNCHANGED <<panicking, failed>>
               ELSE /\ Panic(MsgTmpDir)
                    /\ failed' = failed \cup {"tmpdir"}
                    /\ UNCHANGED <<defers, tmpDirExists>>
    /\ UNCHANGED <<inPath, previewOnly, style, input, mdTxt, sink, stdout,
                   fileOut, stderr, exitCode>>

\* Variant of CreateTmp: f.Close is deferred after the launcher, so the file
\* is closed before the launch.
CreateTmp_CloseFirst ==
    /\ pc = "create"
    /\ trace' = Append(trace, "create")
    /\ \E ok \in BOOLEAN :
         IF ok
         THEN /\ sink' = "file"
              /\ defers' = Defer("closeTmp", Defer("launcher", defers))
              /\ pc' = "style"
              /\ UNCHANGED <<panicking, failed>>
         ELSE /\ Panic(MsgTmpDir)
              /\ failed' = failed \cup {"tmpfile"}
              /\ UNCHANGED <<sink, defers>>
    /\ UNCHANGED <<inPath, previewOnly, style, input, mdTxt, stdout, fileOut,
                   stderr, tmpDirExists, exitCode>>

\* Variant of CreateTmp: an error of os.Create is printed and the run goes
\* on with standard output as the sink.
CreateTmp_Swallow ==
    /\ pc = "create"
    /\ trace' = Append(trace, "create")
    /\ \E ok \in BOOLEAN :
         IF ok
         THEN /\ sink' = "file"
              /\ defers' = Defer("launcher", Defer("closeTmp", defers))
              /\ UNCHANGED <<stderr, failed>>
         ELSE /\ stderr' = Append(stderr, MsgTmpDir)
              /\ failed' = failed \cup {"tmpfile"}
              /\ UNCHANGED <<sink, defers>>
    /\ pc' = "style"
    /\ UNCHANGED <<inPath, previewOnly, style, input, mdTxt, stdout, fileOut,
                   panicking, tmpDirExists, exitCode>>

\* main.go 71-93: os.Create of out.html, which becomes the sink; f.Close and
\* the preview launcher are deferred.
CreateTmp ==
    /\ pc = "create"
    /\ trace' = Append(trace, "create")
    /\ \E ok \in BOOLEAN :
         IF ok
         THEN /\ sink' = "file"
              /\ defers' = Defer("launcher", Defer("closeTmp", defers))
              /\ pc' = "style"
              /\ UNCHANGED <<panicking, failed>>
         ELSE /\ Panic(MsgTmpDir)
              /\ failed' = failed \cup {"tmpfile"}
              /\ UNCHANGED <<sink, defers>>
    /\ UNCHANGED <<inPath, previewOnly, style, input, mdTxt, stdout, fileOut,
                   stderr, tmpDirExists, exitCode>>

\* Variant of StylePrefix: the suffix is written right after the preamble
\* instead of being deferred.
StylePrefix_SuffixNow ==
    /\ pc = "style"
    /\ IF ~style
       THEN /\ pc' = "convert"
            /\ UNCHANGED <<defers, panicking, stdout, fileOut, trace, failed>>
       ELSE \E ok \in BOOLEAN :
            /\ trace' = Append(trace, "prefix")
            /\ IF ok
               THEN /\ WriteTo(sink, Preamble \o Suffix)
                    /\ pc' = "convert"
                    /\ UNCHANGED <<defers, panicking, failed>>
               ELSE /\ \E part \in Partial(Preamble) : WriteTo(sink, part)
                    /\ Panic(MsgPrefix)
                    /\ failed' = failed \cup {"prefix"}
                    /\ UNCHANGED defers
    /\ UNCHANGED <<inPath, previewOnly, style, input, mdTxt, sink, stderr,
                   tmpDirExists, exitCode>>

\* main.go 97-136: with -style the preamble is written to the sink and the
\* suffix writer is deferred.  The template text is a constant that parses.
StylePrefix ==
    /\ pc = "style"
    /\ IF ~style
       THEN /\ pc' = "convert"
            /\ UNCHANGED <<defers, panicking, stdout, fileOut, trace, failed>>
       ELSE \E ok \in BOOLEAN :
            /\ trace' = Append(trace, "prefix")
            /\ IF ok
               THEN /\ WriteTo(sink, Preamble)
                    /\ defers' = Defer("suffix", defers)
                    /\ pc' = "convert"
                    /\ UNCHANGED <<panicking, failed>>
               ELSE /\ \E part \in Partial(Preamble) : WriteTo(sink, part)
                    /\ Panic(MsgPrefix)
                    /\ failed' = failed \cup {"prefix"}
                    /\ UNCHANGED defers
    /\ UNCHANGED <<inPath, previewOnly, style, input, mdTxt, sink, stderr,
                   tmpDirExists, exitCode>>

\* main.go 139-142: md.Convert writes to the sink; then main returns and its
\* deferred functions run.
MdConvert ==
    /\ pc = "convert"
    /\ trace' = Append(trace, "convert")
    /\ \E ok \in BOOLEAN :
         IF ok
         THEN /\ WriteTo(sink, Convert(mdTxt))
              /\ pc' = "unwind"
              /\ UNCHANGED <<panicking, failed>>
         ELSE /\ \E part \in Partial(Convert(mdTxt)) : WriteTo(sink, part)
              /\ Panic(MsgRender)
              /\ failed' = failed \cup {"convert"}
    /\ UNCHANGED <<inPath, previewOnly, style, input, mdTxt, defers, sink,
                   stderr, tmpDirExists, exitCode>>

\* A deferred function is run when it is the most recently deferred one left.
Runs(f) ==
    /\ pc = "unwind"
    /\ defers # <<>>
    /\ Head(defers) = f

\* Variant of DeferSuffix: no recover(); the suffix is written whether or
\* not main is panicking.
DeferSuffix_NoRecover ==
    /\ Runs("suffix")
    /\ defers' = Tail(defers)
    /\ \E ok \in BOOLEAN :
         /\ trace' = Append(trace, "suffix")
         /\ IF ok
            THEN /\ WriteTo(sink, Suffix)
                 /\ UNCHANGED <<panicking, failed>>
            ELSE /\ \E part \in Partial(Suffix) : WriteTo(sink, part)
                 /\ panicking' = MsgSuffix
                 /\ failed' = failed \cup {"suffix"}
    /\ UNCHANGED <<inPath, previewOnly, style, input, mdTxt, pc, sink, stderr,
                   tmpDirExists, exitCode>>

\* Variant of DeferSuffix: the suffix goes to os.Stdout, not to the sink.
DeferSuffix_ToStdout ==
    /\ Runs("suffix")
    /\ defers' = Tail(defers)
    /\ IF panicking # NoPanic
       THEN /\ panicking' = NoPanic
            /\ UNCHANGED <<stdout, fileOut, trace, failed>>
       ELSE \E ok \in BOOLEAN :
            /\ trace' = Append(trace, "suffix")
            /\ IF ok
               THEN /\ WriteTo("stdout", Suffix)
                    /\ UNCHANGED <<panicking, failed>>
               ELSE /\ \E part \in Partial(Suffix) : WriteTo("stdout", part)
                    /\ panicking' = MsgSuffix
                    /\ failed' = failed \cup {"suffix"}
    /\ UNCHANGED <<inPath, previewOnly, style, input, mdTxt, pc, sink, stderr,
                   tmpDirExists, exitCode>>

\* main.go 124-135: the suffix writer.  recover() ends a panic in progress.
DeferSuffix ==
    /\ Runs("suffix")
    /\ defers' = Tail(defers)
    /\ IF panicking # NoPanic
       THEN /\ panicking' = NoPanic
            /\ UNCHANGED <<stdout, fileOut, trace, failed>>
       ELSE \E ok \in BOOLEAN :
            /\ trace' = Append(trace, "suffix")
            /\ IF ok
               THEN /\ WriteTo(sink, Suffix)
                    /\ UNCHANGED <<panicking, failed>>
               ELSE /\ \E part \in Partial(Suffix) : WriteTo(sink, part)
                    /\ panicking' = MsgSuffix
                    /\ failed' = failed \cup {"suffix"}
    /\ UNCHANGED <<inPath, previewOnly, style, input, mdTxt, pc, sink, stderr,
                   tmpDirExists, exitCode>>

\* Variant of DeferLauncher: time.Sleep comes before the test of the launch
\* command's error, so the delay follows a failed launch too.
DeferLauncher_SleepAlways ==
    /\ Runs("launcher")
    /\ defers' = Tail(defers)
    /\ IF panicking # NoPanic
       THEN /\ panicking' = NoPanic
            /\ stderr' = Append(stderr, MsgSkip)
            /\ UNCHANGED <<trace, failed>>
       ELSE \E ok \in BOOLEAN :
            /\ trace' = trace \o <<"launch", "sleep">>
            /\ IF ok
               THEN UNCHANGED <<panicking, stderr, failed>>
               ELSE /\ panicking' = MsgLaunch
                    /\ failed' = failed \cup {"launch"}
                    /\ UNCHANGED stderr
    /\ UNCHANGED <<inPath, previewOnly, style, input, mdTxt, pc, sink, stdout,
                   fileOut, tmpDirExists, exitCode>>

\* Variant of DeferLauncher: an error of the launch command is printed, the
\* function does not panic.
DeferLauncher_LogOnly ==
    /\ Runs("launcher")
    /\ defers' = Tail(defers)
    /\ IF panicking # NoPanic
       THEN /\ panicking' = NoPanic
            /\ stderr' = Append(stderr, MsgSkip)
            /\ UNCHANGED <<trace, failed>>
       ELSE \E ok \in BOOLEAN :
            IF ok
            THEN /\ trace' = trace \o <<"launch", "sleep">>
                 /\ UNCHANGED <<panicking, stderr, failed>>
            ELSE /\ trace' = trace \o <<"launch", "sleep">>
                 /\ stderr' = Append(stderr, MsgLaunch)
                 /\ failed' = failed \cup {"launch"}
                 /\ UNCHANGED panicking
    /\ UNCHANGED <<inPath, previewOnly, style, input, mdTxt, pc, sink, stdout,
                   fileOut, tmpDirExists, exitCode>>

\* Variant of DeferLauncher: no time.Sleep after the launch command.
DeferLauncher_NoSleep ==
    /\ Runs("launcher")
    /\ defers' = Tail(defers)
    /\ IF panicking # NoPanic
       THEN /\ panicking' = NoPanic
            /\ stderr' = Append(stderr, MsgSkip)
            /\ UNCHANGED <<trace, failed>>
       ELSE \E ok \in BOOLEAN :
            /\ trace' = Append(trace, "launch")
            /\ IF ok
               THEN UNCHANGED <<panicking, stderr, failed>>
               ELSE /\ panicking' = MsgLaunch
                    /\ failed' = failed \cup {"launch"}
                    /\ UNCHANGED stderr
    /\ UNCHANGED <<inPath, previewOnly, style, input, mdTxt, pc, sink, stdout,
                   fileOut, tmpDirExists, exitCode>>

\* main.go 80-93: the preview launcher.
DeferLauncher ==
    /\ Runs("launcher")
    /\ defers' = Tail(defers)
    /\ IF panicking # NoPanic
       THEN /\ panicking' = NoPanic
            /\ stderr' = Append(stderr, MsgSkip)
            /\ UNCHANGED <<trace, failed>>
       ELSE \E ok \in BOOLEAN :
            IF ok
            THEN /\ trace' = trace \o <<"launch", "sleep">>
                 /\ UNCHANGED <<panicking, stderr, failed>>
            ELSE /\ trace' = Append(trace, "launch")
                 /\ panicking' = MsgLaunch
                 /\ failed' = failed \cup {"launch"}
                 /\ UNCHANGED stderr
    /\ UNCHANGED <<inPath, previewOnly, style, input, mdTxt, pc, sink, stdout,
                   fileOut, tmpDirExists, exitCode>>

\* main.go 76: defer f.Close() of out.html.
DeferCloseTmp ==
    /\ Runs("closeTmp")
    /\ defers' = Tail(defers)
    /\ trace' = Append(trace, "closeTmp")
    /\ UNCHANGED <<inPath, previewOnly, style, input, mdTxt, pc, panicking,
                   sink, stdout, fileOut, stderr, tmpDirExists, failed,
                   exitCode>>

\* Variant of DeferRemoveAll: an error of os.RemoveAll panics.
DeferRemoveAll_Panics ==
    /\ Runs("removeAll")
    /\ defers' = Tail(defers)
    /\ trace' = Append(trace, "removeAll")
    /\ \E ok \in BOOLEAN :
         IF ok
         THEN /\ tmpDirExists' = FALSE
              /\ UNCHANGED <<stderr, failed, panicking>>
         ELSE /\ stderr' = Append(stderr, MsgRemove)
              /\ failed' = failed \cup {"cleanup"}
              /\ panicking' = MsgRemove
              /\ UNCHANGED tmpDirExists
    /\ UNCHANGED <<inPath, previewOnly, style, input, mdTxt, pc,
                   sink, stdout, fileOut, exitCode>>

\* main.go 65-69: os.RemoveAll(tmpDir); an error is printed, nothing more.
DeferRemoveAll ==
    /\ Runs("removeAll")
    /\ defers' = Tail(defers)
    /\ trace' = Append(trace, "removeAll")
    /\ \E ok \in BOOLEAN :
         IF ok
         THEN /\ tmpDirExists' = FALSE
              /\ UNCHANGED <<stderr, failed>>
         ELSE /\ stderr' = Append(stderr, MsgRemove)
              /\ failed' = failed \cup {"cleanup"}
              /\ UNCHANGED tmpDirExists
    /\ UNCHANGED <<inPath, previewOnly, style, input, mdTxt, pc, panicking,
                   sink, stdout, fileOut, exitCode>>

\* main.go 41: defer f.Close() of the input file.
DeferCloseIn ==
    /\ Runs("closeIn")
    /\ defers' = Tail(defers)
    /\ trace' = Append(trace, "closeIn")
    /\ UNCHANGED <<inPath, previewOnly, style, input, mdTxt, pc, panicking,
                   sink, stdout, fileOut, stderr, tmpDirExists, failed,
                   exitCode>>

\* The end of main: with a panic still in progress the Go runtime prints it
\* and the process exits with status 2; otherwise the status is 0.
Exit ==
    /\ pc = "unwind"
    /\ defers = <<>>
    /\ pc' = "exited"
    /\ IF panicking # NoPanic
       THEN /\ stderr' = Append(stderr, panicking)
            /\ exitCode' = 2
       ELSE /\ exitCode' = 0
            /\ UNCHANGED stderr
    /\ UNCHANGED <<inPath, previewOnly, style, input, mdTxt, defers, panicking,
                   sink, stdout, fileOut, tmpDirExists, trace, failed>>

Next ==
    \/ OpenInput
    \/ ReadAll
    \/ MkdirTemp
    \/ CreateTmp
    \/ StylePrefix
    \/ MdConvert
    \/ DeferSuffix
    \/ DeferLauncher
    \/ DeferCloseTmp
    \/ DeferRemoveAll
    \/ DeferCloseIn
    \/ Exit

Spec == Init /\ [][Next]_vars

----------------------------------------------------------------------------
(***************************************************************************)
(* The earlier main, without -style (unnamed/part_000): the same pipeline, *)
(* with the launch inline after md.Convert, no recover() and os.RemoveAll  *)
(* as the only deferred function.  It is run here as a function of the     *)
(* outcomes of its calls: o.open, o.read, o.mkdir, o.create, o.convert,    *)
(* o.launch and o.remove tell whether the call succeeds, o.part is what a  *)
(* failing md.Convert has written.  A state is a record of the variables   *)
(* above that this main has.                                               *)
(***************************************************************************)
OldInit ==
    [pc |-> "open", mdTxt |-> <<>>, defers |-> <<>>, panicking |-> NoPanic,
     sink |-> "stdout", stdout |-> <<>>, fileOut |-> <<>>, stderr |-> <<>>,
     tmpDirExists |-> FALSE, trace |-> <<>>, exitCode |-> NotExited]

OldPanic(s, msg) == [s EXCEPT !.panicking = msg, !.pc = "unwind"]

OldWrite(s, bytes) ==
    IF s.sink = "stdout"
    THEN [s EXCEPT !.stdout = @ \o bytes]
    ELSE [s EXCEPT !.fileOut = @ \o bytes]

\* part_000 33-40: os.Open of a named input file; it is never closed.
OldOpenInput(s, o) ==
    IF UsesStdin
    THEN [s EXCEPT !.pc = "read"]
    ELSE LET t == [s EXCEPT !.trace = Append(@, "open")]
         IN  IF o.open THEN [t EXCEPT !.pc = "read"]
             ELSE OldPanic(t, MsgOpen)

\* part_000 41-44: io.ReadAll.
OldReadAll(s, o) ==
    LET t == [s EXCEPT !.trace = Append(@, "read")]
    IN  IF o.read THEN [t EXCEPT !.mdTxt = input, !.pc = "mkdir"]
        ELSE OldPanic(t, MsgRead)

\* part_000 55-65: os.MkdirTemp and the deferred os.RemoveAll.
OldMkdirTemp(s, o) ==
    IF ~previewOnly
    THEN [s EXCEPT !.pc = "convert"]
    ELSE LET t == [s EXCEPT !.trace = Append(@, "mkdir")]
         IN  IF o.mkdir
             THEN [t EXCEPT !.tmpDirExists = TRUE,
                            !.defers = Defer("removeAll", @),
                            !.pc = "create"]
             ELSE OldPanic(t, MsgTmpDir)

\* part_000 67-73: os.Create of out.html, which becomes the sink.
OldCreateTmp(s, o) ==
    LET t == [s EXCEPT !.trace = Append(@, "create")]
    IN  IF o.create THEN [t EXCEPT !.sink = "file", !.pc = "convert"]
        ELSE OldPanic(t, MsgTmpDir)

\* part_000 75-77: md.Convert writes to the sink.
OldMdConvert(s, o) ==
    LET t == [s EXCEPT !.trace = Append(@, "convert")]
    IN  IF o.convert
        THEN [OldWrite(t, Convert(s.mdTxt)) EXCEPT !.pc = "launch"]
        ELSE OldPanic(OldWrite(t, o.part), MsgRender)

\* part_000 79-87: in preview mode the launch command, then time.Sleep; then
\* main returns.
OldLaunch(s, o) ==
    IF ~previewOnly
    THEN [s EXCEPT !.pc = "unwind"]
    ELSE IF o.launch
         THEN [s EXCEPT !.trace = @ \o <<"launch", "sleep">>, !.pc = "unwind"]
         ELSE OldPanic([s EXCEPT !.trace = Append(@, "launch")], MsgLaunch)

\* part_000 61-65: the deferred os.RemoveAll; an error is printed.
OldDeferRemoveAll(s, o) ==
    LET t == [s EXCEPT !.defers = Tail(@), !.trace = Append(@, "removeAll")]
    IN  IF o.remove THEN [t EXCEPT !.tmpDirExists = FALSE]
        ELSE [t EXCEPT !.stderr = Append(@, MsgRemove)]

\* part_000 88: the end of main; an unrecovered panic is printed by the Go
\* runtime and the process exits with status 2.
OldExit(s) ==
    IF s.panicking # NoPanic
    THEN [s EXCEPT !.pc = "exited", !.exitCode = 2,
                   !.stderr = Append(@, s.panicking)]
    ELSE [s EXCEPT !.pc = "exited", !.exitCode = 0]

OldStep(s, o) ==
    CASE s.pc = "open"    -> OldOpenInput(s, o)
      [] s.pc = "read"    -> OldReadAll(s, o)
      [] s.pc = "mkdir"   -> OldMkdirTemp(s, o)
      [] s.pc = "create"  -> OldCreateTmp(s, o)
      [] s.pc = "convert" -> OldMdConvert(s, o)
      [] s.pc = "launch"  -> OldLaunch(s, o)
      [] s.pc = "unwind"  -> IF s.defers # <<>> THEN OldDeferRemoveAll(s, o)
                             ELSE OldExit(s)

\* The earlier main run to its exit.
RECURSIVE OldRun(_, _)
OldRun(s, o) == IF s.pc = "exited" THEN s ELSE OldRun(OldStep(s, o), o)


----------------------------------------------------------------------------
TypeOK ==
    /\ inPath \in InPaths
    /\ previewOnly \in BOOLEAN /\ style \in BOOLEAN
    /\ pc \in {"open", "read", "mkdir", "create", "style", "convert",
               "unwind", "exited"}
    /\ sink \in {"stdout", "file"}
    /\ exitCode \in {NotExited, 0, 2}

Exited == pc = "exited"

\* Position of the first call named e in the trace, 0 when there is none.
Pos(e) ==
    IF \E i \in 1..Len(trace) : trace[i] = e
    THEN CHOOSE i \in 1..Len(trace) :
            /\ trace[i] = e
            /\ \A j \in 1..(i - 1) : trace[j] # e
    ELSE 0

Called(e) == Pos(e) > 0

\* The calls whose error is fatal: all but the removal of the directory.
Fatal == failed \ {"cleanup"}

\* The stages a diagnostic line identifies.  os.Create's error is reported
\* with the text of the directory creation, wrapping the error of the file.
Names(msg) ==
    CASE msg = MsgOpen   -> {"open"}
      [] msg = MsgRead   -> {"read"}
      [] msg = MsgTmpDir -> {"tmpdir", "tmpfile"}
      [] msg = MsgPrefix -> {"prefix"}
      [] msg = MsgRender -> {"convert"}
      [] msg = MsgSuffix -> {"suffix"}
      [] msg = MsgLaunch -> {"launch"}
      [] msg = MsgRemove -> {"cleanup"}
      [] OTHER           -> {}

Reported(stage) == \E i \in 1..Len(stderr) : stage \in Names(stderr[i])

\* The bytes the run wrote to its sink.
Written == IF previewOnly THEN fileOut ELSE stdout

----------------------------------------------------------------------------
\* C1: the process exits with a non-zero status whenever a non-cleanup error
\* occurred in any stage, and with status zero only when none occurred.
C1_ExitStatusReflectsErrors ==
    Exited => (exitCode = 0 <=> Fatal = {})

\* C2: in preview mode the launch command is invoked only if the preamble
\* write, the conversion and the suffix write completed without error.
C2_LaunchOnlyAfterSuccess ==
    Called("launch") => failed \cap {"prefix", "convert", "suffix"} = {}

\* C3: once the temporary directory has been created, its removal is
\* attempted on every exit path, and when the removal succeeds the directory
\* no longer exists when the process has exited.
C3_RemovalOnEveryExitPath ==
    (Exited /\ Called("mkdir") /\ "tmpdir" \notin failed)
        => /\ Called("removeAll")
           /\ ("cleanup" \notin failed => ~tmpDirExists)

C3_Witness ==
    /\ Exited
    /\ "launch" \in failed
    /\ Called("removeAll")
    /\ "cleanup" \notin failed
    /\ ~tmpDirExists

\* The run failed to create the temporary directory or out.html.
SinkCreationFailed == failed \cap {"tmpdir", "tmpfile"} # {}

AbortedBeforeConversion ==
    /\ exitCode # 0
    /\ ~Called("prefix")
    /\ ~Called("convert")
    /\ ~Called("suffix")
    /\ ~Called("launch")
    /\ stdout = <<>>
    /\ fileOut = <<>>

\* C4 (as stated): if creating the temporary directory or out.html fails, the
\* process exits non-zero before any conversion, before any byte is written
\* and without a launch, and no temporary directory of the run remains.
C4_Original ==
    (Exited /\ SinkCreationFailed)
        => (AbortedBeforeConversion /\ ~tmpDirExists)

\* C4 (amended): as stated, but the directory is gone only when its removal
\* succeeded; a failed removal is reported and leaves the directory.
C4_AbortBeforeConversion ==
    (Exited /\ SinkCreationFailed)
        => /\ AbortedBeforeConversion
           /\ ("tmpfile" \in failed => Called("removeAll"))
           /\ ("cleanup" \notin failed => ~tmpDirExists)
           /\ ("cleanup" \in failed => Reported("cleanup"))

C4_Witness ==
    /\ Exited
    /\ "tmpfile" \in failed
    /\ exitCode = 2
    /\ ~tmpDirExists

\* C5: on every fatal error a diagnostic line that identifies the failing
\* stage is emitted before the process ends.
C5_FatalErrorReported ==
    Exited => \A stage \in Fatal : Reported(stage)

\* C6: for an input whose conversion succeeds, the bytes written with -style
\* are the preamble, then the bytes written without -style for that input,
\* then the closing boilerplate, with nothing in between.
C6_StyleWrapsBody ==
    (Exited /\ Fatal = {})
        => Written = IF style
                     THEN Preamble \o Convert(input) \o Suffix
                     ELSE Convert(input)

C6_Witness ==
    /\ Exited
    /\ Fatal = {}
    /\ style
    /\ Len(Convert(input)) > 3
    /\ Written = Preamble \o Convert(input) \o Suffix

\* C7: a failure to remove the temporary directory is reported on standard
\* error and does not change the exit status: the removal step leaves the
\* panic state, from which the exit status is taken, as it found it.
C7_CleanupFailureNotFatal ==
    /\ [][Runs("removeAll")
            => /\ panicking' = panicking
               /\ ("cleanup" \in failed' => stderr' = Append(stderr, MsgRemove))
         ]_vars
    /\ [][pc' = "exited"
            => exitCode' = (IF panicking = NoPanic THEN 0 ELSE 2)]_vars

C7_Witness ==
    /\ Exited
    /\ "cleanup" \in failed
    /\ Fatal = {}
    /\ exitCode = 0
    /\ Reported("cleanup")

\* C8: a failing launch command is not swallowed: the process exits non-zero
\* with the launch error reported, and the removal of the temporary
\* directory is attempted after the launch.
C8_LaunchFailureFatal ==
    (Exited /\ "launch" \in failed)
        => /\ exitCode # 0
           /\ Reported("launch")
           /\ Pos("removeAll") > Pos("launch")

C8_Witness ==
    /\ Exited
    /\ "launch" \in failed
    /\ style
    /\ exitCode = 2
    /\ Pos("removeAll") > Pos("launch")

\* C9: a run uses one sink for all its writes: without -preview nothing is
\* written to a file, no temporary directory or file is created and nothing
\* is launched; with -preview nothing is written to standard output.
C9_SingleSink ==
    /\ ~previewOnly
         => /\ fileOut = <<>>
            /\ sink = "stdout"
            /\ ~tmpDirExists
            /\ ~Called("mkdir") /\ ~Called("create") /\ ~Called("launch")
    /\ previewOnly
         => /\ stdout = <<>>
            /\ (fileOut # <<>> => sink = "file")

C9_Witness ==
    /\ Exited
    /\ previewOnly
    /\ style
    /\ Fatal = {}
    /\ fileOut = Preamble \o Convert(input) \o Suffix
    /\ Convert(input) # <<>>

\* C10: when the launch command returns successfully, the temporary
\* directory is removed only after the launch has returned and the delay
\* has elapsed.
C10_RemovalAfterLaunchAndDelay ==
    (Called("launch") /\ "launch" \notin failed)
        => /\ Pos("sleep") = Pos("launch") + 1
           /\ (Called("removeAll") => Pos("removeAll") > Pos("sleep"))
           /\ (~Called("removeAll") => tmpDirExists)

C10_Witness ==
    /\ Exited
    /\ Called("launch")
    /\ "launch" \notin failed
    /\ Pos("launch") < Pos("sleep")
    /\ Pos("sleep") < Pos("removeAll")
    /\ ~tmpDirExists

\* C11 (as stated): the delay is observed after every launch attempt: when
\* the launch command returns an error, the delay still elapses before the
\* temporary directory is removed.
C11_Original ==
    (Called("removeAll") /\ "launch" \in failed)
        => (Called("sleep") /\ Pos("sleep") < Pos("removeAll"))

\* C11 (amended): the delay is observed exactly after a launch command that
\* returned successfully; when the launch command returns an error there is
\* no delay, and the temporary directory is removed after the failed launch.
C11_DelayOnlyAfterSuccessfulLaunch ==
    /\ Called("sleep") <=> (Called("launch") /\ "launch" \notin failed)
    /\ (Exited /\ "launch" \in failed)
         => /\ ~Called("sleep")
            /\ Pos("removeAll") > Pos("launch")

C11_Witness ==
    /\ Exited
    /\ "launch" \in failed
    /\ ~Called("sleep")
    /\ Pos("removeAll") > Pos("launch")
    /\ exitCode = 2

\* The calls that write to the sink.
SinkWrites == {"prefix", "convert", "suffix"}

\* C12: after a fatal error no later stage writes to the sink: once a
\* non-cleanup error has occurred, no byte is added to standard output or to
\* out.html and no writing call (preamble, body, suffix) is made.
C12_NoWriteAfterFatalError ==
    [][Fatal # {}
         => /\ stdout' = stdout
            /\ fileOut' = fileOut
            /\ \A i \in (Len(trace) + 1)..Len(trace') :
                   trace'[i] \notin SinkWrites]_vars

C12_Witness ==
    /\ Exited
    /\ style
    /\ "convert" \in failed
    /\ Called("prefix")
    /\ ~Called("suffix")
    /\ \E part \in Partial(Convert(input)) : Written = Preamble \o part

\* C13: the input is opened and read completely before the sink is
\* selected: when opening or reading the input fails, the run aborts with no
\* temporary directory or file created, no byte written and no launch, even
\* with -preview and -style; the input is standard input exactly when the
\* -i value is empty or "-".
C13_InputBeforeSink ==
    /\ failed \cap {"open", "read"} # {}
         => /\ ~Called("mkdir") /\ ~Called("create") /\ ~tmpDirExists
            /\ ~Called("prefix") /\ ~Called("convert") /\ ~Called("suffix")
            /\ stdout = <<>> /\ fileOut = <<>>
            /\ ~Called("launch")
            /\ (Exited => exitCode # 0)
    /\ (pc \notin {"open", "read"} /\ Fatal \cap {"open", "read"} = {})
         => /\ Called("read")
            /\ mdTxt = input
    /\ \A e \in {"mkdir", "create", "prefix", "convert"} :
         Called(e) => (Called("read") /\ Pos("read") < Pos(e))
    /\ pc # "open" => (Called("open") <=> inPath \notin {"", "-"})

C13_Witness ==
    /\ Exited
    /\ previewOnly
    /\ style
    /\ inPath = "doc.md"
    /\ "read" \in failed
    /\ exitCode = 2
    /\ ~Called("mkdir")

\* The calls made after md.Convert.
AfterConvert == SubSeq(trace, Pos("convert") + 1, Len(trace))

\* C14: exit handlers run in reverse order of their registration: in a
\* successful run with -style and -preview the order after conversion is
\* suffix write, launch, delay, close of the temporary file, removal of the
\* temporary directory (then close of a named input file), so the closing
\* boilerplate is in the file when the viewer is launched.
C14_HandlersInReverseOrder ==
    /\ (Exited /\ style /\ previewOnly /\ Fatal = {})
         => /\ AfterConvert =
                  <<"suffix", "launch", "sleep", "closeTmp", "removeAll">>
                  \o (IF Called("open") THEN <<"closeIn">> ELSE <<>>)
            /\ fileOut = Preamble \o Convert(input) \o Suffix
    /\ (style /\ Called("launch") /\ "convert" \notin failed)
         => fileOut = Preamble \o Convert(input) \o Suffix

C14_Witness ==
    /\ Exited
    /\ style
    /\ previewOnly
    /\ Fatal = {}
    /\ inPath = "doc.md"
    /\ AfterConvert =
          <<"suffix", "launch", "sleep", "closeTmp", "removeAll", "closeIn">>

\* The number of calls named e in the trace.
Count(e) == Cardinality({i \in 1..Len(trace) : trace[i] = e})

Pending(f) == \E i \in 1..Len(defers) : defers[i] = f

\* C16: the temporary file, once created, is closed exactly once on every
\* exit path, not before the launch attempt and the delay have finished and
\* before the removal of the temporary directory begins; a named input file
\* that was opened is closed last, after the removal.
C16_CloseOrder ==
    /\ (Exited /\ Called("create") /\ "tmpfile" \notin failed)
         => /\ Count("closeTmp") = 1
            /\ Called("removeAll")
            /\ Pos("closeTmp") < Pos("removeAll")
    /\ Called("closeTmp")
         => /\ ~Pending("launcher")
            /\ Pos("closeTmp") > Pos("launch")
            /\ Pos("closeTmp") > Pos("sleep")
    /\ Called("removeAll") => (Called("create") /\ ~Pending("closeTmp"))
    /\ Count("closeTmp") <= 1
    /\ (Exited /\ Called("open") /\ "open" \notin failed)
         => /\ Count("closeIn") = 1
            /\ trace[Len(trace)] = "closeIn"
            /\ Pos("closeIn") > Pos("removeAll")

C16_Witness ==
    /\ Exited
    /\ inPath = "doc.md"
    /\ "convert" \in failed
    /\ Count("closeTmp") = 1
    /\ Called("removeAll")
    /\ Pos("closeTmp") < Pos("removeAll")
    /\ Pos("removeAll") < Pos("closeIn")

\* The outcomes of the calls of this run: a call failed or it did not; with
\* -style unset the sink holds what md.Convert wrote.
Outcomes ==
    [open    |-> "open" \notin failed,
     read    |-> "read" \notin failed,
     mkdir   |-> "tmpdir" \notin failed,
     create  |-> "tmpfile" \notin failed,
     convert |-> "convert" \notin failed,
     launch  |-> "launch" \notin failed,
     remove  |-> "cleanup" \notin failed,
     part    |-> Written]

IsObserved(e) == e \in {"convert", "launch", "removeAll"}

\* What is observed of a run: the writing, launching and removing calls in
\* order, and the bytes each sink received.
Events(t, out, file) == <<SelectSeq(t, IsObserved), out, file>>

OldResult == OldRun(OldInit, Outcomes)

\* C15: with -style unset the current main and the earlier one are
\* observably equivalent: for the same input and the same outcome of every
\* call they make the same sink writes, launch attempts and removals of the
\* temporary directory, and end with the same exit status.
C15_EquivalentToEarlierVersion ==
    (Exited /\ ~style)
        => /\ Events(trace, stdout, fileOut)
                = Events(OldResult.trace, OldResult.stdout, OldResult.fileOut)
           /\ exitCode = OldResult.exitCode

\* With -style unset the two versions make the same calls and writes and
\* leave the temporary directory in the same state; of what is observed,
\* the exit status alone can differ.
SameEventsAsEarlierVersion ==
    (Exited /\ ~style)
        => /\ Events(trace, stdout, fileOut)
                = Events(OldResult.trace, OldResult.stdout, OldResult.fileOut)
           /\ tmpDirExists = OldResult.tmpDirExists
           /\ (Fatal \cap {"convert"} = {} => exitCode = OldResult.exitCode)

====
